---- MODULE Spec2Model ----
(***************************************************************************)
(* Model of the calendar controller (src/src/controllers/                  *)
(* calendar.controller.js): the scope reconciler (updateScope), the bulk   *)
(* task generator (generateTasks) and the explicit date assignment         *)
(* (updateTaskDate), over a persistence layer of tasks, scopes and the     *)
(* activity log.  Every await on the persistence layer is one atomic step. *)
(***************************************************************************)
EXTENDS Integers, Sequences, FiniteSets, TLC

\* ------------------------------------------------------------------ bounds
MaxQty == 2        \* largest quantity a request carries
MaxInit == 2       \* most tasks of the scope's type in the initial store
MaxDay == 6        \* last day (days since the epoch) a request carries
MaxEntries == 2    \* most entries of a generateTasks request
MaxCalls == 3      \* most requests served one after another

VARIABLES
  tasks,    \* the Task table: a set of task rows
  scopes,   \* the CalendarScope table: a set of scope rows
  log,      \* the ActivityLog table: a sequence of entries, append-only
  nextId,   \* the next fresh row id
  pc,       \* per request slot: the await the handler is suspended at
  req,      \* per request slot: the request (params and body)
  loc,      \* per request slot: the handler's local variables
  res,      \* per request slot: the response sent
  pre,      \* history: the store as it was when the request arrived
  calls,    \* history: number of requests that have arrived
  overlap   \* history: a request arrived while another was in flight

vars == <<tasks, scopes, log, nextId, pc, req, loc, res, pre, calls, overlap>>

Procs == {1, 2}
Types == {"BLOG_POST", "VIDEO"}
Statuses == {"TODO", "IN_PROGRESS", "COMPLETED"}
Cal == "cal1"           \* the calendar the requests are about
OtherCal == "cal2"      \* another calendar of the same store
ScopeId == 1            \* id of the scope row the updateScope requests name
Unset == <<>>           \* null / undefined; a present value v is <<v>>

Max(a, b) == IF a >= b THEN a ELSE b
Abs(n) == IF n < 0 THEN 0 - n ELSE n
SeqToSet(s) == {s[i] : i \in 1..Len(s)}
Ids(T) == {t.id : t \in T}

RECURSIVE Perms(_)
Perms(S) ==
  IF S = {} THEN {<<>>}
  ELSE UNION {{<<x>> \o s : s \in Perms(S \ {x})} : x \in S}

\* ------------------------------------------------------------ rows
\* title `${contentType.replace("_", " ")} #${n}`: the label's content type,
\* its letter case and the number
Title(type, n) == [label |-> type, form |-> "UPPER", num |-> n]

NewTask(id, calendarId, type, n) ==
  [id |-> id, calendarId |-> calendarId, contentType |-> type,
   title |-> Title(type, n), descLabel |-> type,
   status |-> "TODO", priority |-> "MEDIUM",
   publishDate |-> Unset, dueDate |-> Unset]

TasksOf(T, calendarId, type) ==
  {t \in T : t.calendarId = calendarId /\ t.contentType = type}

CountOf(T, calendarId, type) == Cardinality(TasksOf(T, calendarId, type))

NoScope == [id |-> 0, calendarId |-> "", contentType |-> "", quantity |-> 0,
            completed |-> 0]

FindScope(S, id) ==
  IF \E s \in S : s.id = id THEN CHOOSE s \in S : s.id = id ELSE NoScope

InitLoc ==
  [currentScope |-> NoScope, tasksToMigrate |-> {}, existingCount |-> 0,
   i |-> 0, idsToDelete |-> {}, calendarTasks |-> {}, k |-> 1,
   createdTasks |-> <<>>,
   wrote |-> FALSE,      \* history: the scope update has been written
   failedAt |-> "",      \* history: the await that rejected
   arrival |-> 0]        \* history: 1 for the first request, 2 for the next

NoReq == [op |-> "none"]
Snapshot == [tasks |-> tasks, scopes |-> scopes, log |-> log]
NoSnapshot == [tasks |-> {}, scopes |-> {}, log |-> <<>>]

\* ------------------------------------------------------------ updateScope
\* lines 285-288
NewQuantity(r, cur) == IF r.quantity # Unset THEN r.quantity[1] ELSE cur.quantity
NewContentType(r, cur) == IF r.contentType # "" THEN r.contentType ELSE cur.contentType
IsTypeChanging(r, cur) == r.contentType # "" /\ r.contentType # cur.contentType

\* lines 291-294: the fields the scope update writes
UpdateDataWithoutType(r, cur, row) ==
  [row EXCEPT
     !.quantity = IF r.quantity # Unset THEN NewQuantity(r, cur) ELSE @,
     !.completed = IF r.completed # Unset THEN r.completed[1] ELSE @]
UpdateData(r, cur, row) ==
  [row EXCEPT
     !.quantity = IF r.quantity # Unset THEN NewQuantity(r, cur) ELSE @,
     !.completed = IF r.completed # Unset THEN r.completed[1] ELSE @,
     !.contentType = IF IsTypeChanging(r, cur) THEN NewContentType(r, cur) ELSE @]

\* the unique index on (calendarId, contentType): would `row` break it in S
NoUniqueIndex(S, row) == FALSE
ViolatesUnique(S, row) ==
  \E s \in S : s.id # row.id /\ s.calendarId = row.calendarId
                 /\ s.contentType = row.contentType

\* line 340
QuantityDiffFromUpdatedScope(r, cur) == NewQuantity(r, cur) - NewQuantity(r, cur)
QuantityDiff(r, cur) == NewQuantity(r, cur) - cur.quantity

\* lines 312-324: the regex replace of the old label by the new one
RewriteTitle(title, old, new) ==
  IF title.label = old
  THEN [title EXCEPT !.label = new,
                     !.form = IF title.form \in {"UPPER", "Capitalized"}
                              THEN "Capitalized" ELSE "lower"]
  ELSE title
RewriteDescription(label, old, new) == IF label = old THEN new ELSE label

\* lines 326-333: one task.update of the migration batch, from the row read
MigratedRowKeepType(row, snap, old, new) ==
  [row EXCEPT !.title = RewriteTitle(snap.title, old, new),
              !.descLabel = RewriteDescription(snap.descLabel, old, new)]
MigratedRow(row, snap, old, new) ==
  [row EXCEPT !.contentType = new,
              !.title = RewriteTitle(snap.title, old, new),
              !.descLabel = RewriteDescription(snap.descLabel, old, new)]

\* lines 410-412: the comparator's score
ScoreTodoOnly(t) == IF t.status = "TODO" THEN 2 ELSE 0
Score(t) ==
  IF t.status = "TODO" THEN 2 ELSE (IF t.status = "IN_PROGRESS" THEN 1 ELSE 0)

\* Array.prototype.sort with (a, b) => scoreB - scoreA: stable, descending
RECURSIVE InsertByScore(_, _)
InsertByScore(sorted, x) ==
  IF sorted = <<>> THEN <<x>>
  ELSE IF Score(x) - Score(Head(sorted)) <= 0
       THEN <<Head(sorted)>> \o InsertByScore(Tail(sorted), x)
       ELSE <<x>> \o sorted
RECURSIVE SortByScore(_)
SortByScore(s) ==
  IF Len(s) <= 1 THEN s
  ELSE InsertByScore(SortByScore(SubSeq(s, 1, Len(s) - 1)), s[Len(s)])

\* orderBy publishDate desc: rows with a date in descending order, the rows
\* without one all before or all after them (the database decides), ties in
\* any order
OrderedByPublishDesc(s, nullsFirst) ==
  \A i, j \in 1..Len(s) : i < j =>
    IF s[i].publishDate = Unset /\ s[j].publishDate = Unset THEN TRUE
    ELSE IF s[i].publishDate = Unset THEN nullsFirst
    ELSE IF s[j].publishDate = Unset THEN ~nullsFirst
    ELSE s[i].publishDate[1] >= s[j].publishDate[1]

\* line 415: slice(0, countToRemove)
Slice(s, n) == SubSeq(s, 1, IF n < Len(s) THEN n ELSE Len(s))

\* ------------------------------------------------------------ requests
Opt(S) == {Unset} \cup {<<v>> : v \in S}

UpdateScopeRequests ==
  [op : {"updateScope"}, scopeId : {ScopeId, NoScope.id}, quantity : Opt(0..MaxQty),
   completed : Opt({1}), contentType : {""} \cup Types]

Finish(p, result) ==
  /\ pc' = [pc EXCEPT ![p] = "done"]
  /\ res' = [res EXCEPT ![p] = result]

Goto(p, label) ==
  /\ pc' = [pc EXCEPT ![p] = label]
  /\ res' = res

\* a request arrives at an idle slot and runs to its first await (`first`),
\* or is answered at once with `result` when `first` is "done"
Arrive(p, r, first, result) ==
  /\ pc[p] = "idle"
  /\ calls' = calls + 1
  /\ overlap' = (overlap \/ \E q \in Procs \ {p} : pc[q] \notin {"idle", "done"})
  /\ req' = [req EXCEPT ![p] = r]
  /\ loc' = [loc EXCEPT ![p] = [InitLoc EXCEPT !.arrival = calls + 1]]
  /\ pre' = [pre EXCEPT ![p] = Snapshot]
  /\ pc' = [pc EXCEPT ![p] = first]
  /\ res' = [res EXCEPT ![p] = IF first = "done" THEN result ELSE "none"]
  /\ UNCHANGED <<tasks, scopes, log, nextId>>

\* ------------------------------------------------------------ updateScope
\* lines 268-271: the request arrives
UpdateScopeArrives(p) ==
  \E r \in UpdateScopeRequests : Arrive(p, r, "us_findScope", "none")

\* lines 274-283: findUnique; 404 when the scope does not exist
UsFindScope(p) ==
  /\ pc[p] = "us_findScope"
  /\ LET s == FindScope(scopes, req[p].scopeId) IN
       IF s = NoScope
       THEN /\ Finish(p, "notFound")
            /\ loc' = loc
       ELSE /\ Goto(p, "us_updateScope")
            /\ loc' = [loc EXCEPT ![p].currentScope = s]
  /\ UNCHANGED <<tasks, scopes, log, nextId, req, pre, calls, overlap>>

\* lines 339-343, 396: which await follows the migration
QuantityStep(r, cur) ==
  IF QuantityDiff(r, cur) > 0 THEN "us_count"
  ELSE IF QuantityDiff(r, cur) < 0 THEN "us_findAll"
  ELSE "done"

\* line 302: which await follows the scope update
AfterScopeUpdate(r, cur) ==
  IF IsTypeChanging(r, cur) THEN "us_findToMigrate" ELSE QuantityStep(r, cur)

Continue(p, label) ==
  IF label = "done" THEN Finish(p, "ok") ELSE Goto(p, label)

\* lines 290-299 and 426-429: the scope update; a unique-index violation
\* (P2002) is answered with the conflict message and nothing else runs
UsUpdateScope(p) ==
  /\ pc[p] = "us_updateScope"
  /\ LET r == req[p]
         cur == loc[p].currentScope
         row == FindScope(scopes, r.scopeId)
         new == UpdateData(r, cur, row)
     IN
       IF row = NoScope
       THEN /\ Finish(p, "error")
            /\ UNCHANGED <<scopes, loc>>
       ELSE IF ViolatesUnique(scopes, new)
       THEN /\ Finish(p, "conflict")
            /\ UNCHANGED <<scopes, loc>>
       ELSE /\ scopes' = (scopes \ {row}) \cup {new}
            /\ loc' = [loc EXCEPT ![p].wrote = TRUE]
            /\ Continue(p, AfterScopeUpdate(r, cur))
  /\ UNCHANGED <<tasks, log, nextId, req, pre, calls, overlap>>

\* lines 305-310: the tasks of the old type are read
UsFindToMigrate(p) ==
  /\ pc[p] = "us_findToMigrate"
  /\ LET cur == loc[p].currentScope IN
       loc' = [loc EXCEPT ![p].tasksToMigrate =
                 TasksOf(tasks, cur.calendarId, cur.contentType)]
  /\ Goto(p, "us_migrate")
  /\ UNCHANGED <<tasks, scopes, log, nextId, req, pre, calls, overlap>>

\* lines 316-336: prisma.$transaction(updatePromises): every update is by id,
\* and one update of a row that is gone fails the whole batch
UsMigrate(p) ==
  /\ pc[p] = "us_migrate"
  /\ LET r == req[p]
         cur == loc[p].currentScope
         old == cur.contentType
         new == NewContentType(r, cur)
         snaps == loc[p].tasksToMigrate
         ids == {s.id : s \in snaps}
         SnapOf(id) == CHOOSE s \in snaps : s.id = id
     IN
       IF \A id \in ids : \E t \in tasks : t.id = id
       THEN /\ tasks' = {IF t.id \in ids
                         THEN MigratedRow(t, SnapOf(t.id), old, new)
                         ELSE t : t \in tasks}
            /\ Continue(p, QuantityStep(r, cur))
       ELSE /\ tasks' = tasks
            /\ Finish(p, "error")
  /\ UNCHANGED <<scopes, log, nextId, req, loc, pre, calls, overlap>>

\* lines 350-352: task.count of the new type
UsCount(p) ==
  /\ pc[p] = "us_count"
  /\ LET r == req[p]
         cur == loc[p].currentScope
     IN loc' = [loc EXCEPT
                  ![p].existingCount =
                     CountOf(tasks, cur.calendarId, NewContentType(r, cur)),
                  ![p].i = 0]
  /\ Goto(p, "us_create")
  /\ UNCHANGED <<tasks, scopes, log, nextId, req, pre, calls, overlap>>

\* line 357: the number in the title of the i-th created task
TitleNumberFromZero(existingCount, i) == existingCount + i
TitleNumber(existingCount, i) == existingCount + i + 1

\* lines 354-372: one iteration of the create loop
UsCreate(p) ==
  /\ pc[p] = "us_create"
  /\ LET r == req[p]
         cur == loc[p].currentScope
         i == loc[p].i
     IN
       /\ tasks' = tasks \cup
            {NewTask(nextId, cur.calendarId, NewContentType(r, cur),
                     TitleNumber(loc[p].existingCount, i))}
       /\ nextId' = nextId + 1
       /\ loc' = [loc EXCEPT ![p].i = i + 1]
       /\ IF i + 1 < QuantityDiff(r, cur)
          THEN Goto(p, "us_create")
          ELSE Finish(p, "ok")
  /\ UNCHANGED <<scopes, log, req, pre, calls, overlap>>

\* line 397
CountToRemoveOffByOne(r, cur) == Abs(QuantityDiff(r, cur)) + 1
CountToRemove(r, cur) == Abs(QuantityDiff(r, cur))

\* lines 400-416: findMany of the new type ordered by publishDate desc, the
\* sort by score, the slice, the ids
UsFindAll(p) ==
  /\ pc[p] = "us_findAll"
  /\ LET r == req[p]
         cur == loc[p].currentScope
         found == TasksOf(tasks, cur.calendarId, NewContentType(r, cur))
     IN
       \E allTasks \in Perms(found), nullsFirst \in BOOLEAN :
         /\ OrderedByPublishDesc(allTasks, nullsFirst)
         /\ LET sortedTasks == SortByScore(allTasks)
                tasksToDelete == Slice(sortedTasks, CountToRemove(r, cur))
                idsToDelete == {t.id : t \in SeqToSet(tasksToDelete)}
            IN
              /\ loc' = [loc EXCEPT ![p].idsToDelete = idsToDelete]
              /\ IF idsToDelete # {}
                 THEN Goto(p, "us_delete")
                 ELSE Finish(p, "ok")
  /\ UNCHANGED <<tasks, scopes, log, nextId, req, pre, calls, overlap>>

\* lines 418-422: deleteMany by id
UsDelete(p) ==
  /\ pc[p] = "us_delete"
  /\ tasks' = {t \in tasks : t.id \notin loc[p].idsToDelete}
  /\ Finish(p, "ok")
  /\ UNCHANGED <<scopes, log, nextId, req, loc, pre, calls, overlap>>

UpdateScopeAwaits ==
  {"us_findScope", "us_updateScope", "us_findToMigrate", "us_migrate",
   "us_count", "us_create", "us_findAll", "us_delete"}

\* ------------------------------------------------------------ generateTasks
Entries == [contentType : Types, quantity : 1..MaxQty]

RECURSIVE SeqsUpTo(_, _)
SeqsUpTo(S, n) ==
  IF n = 0 THEN {<<>>}
  ELSE LET shorter == SeqsUpTo(S, n - 1) IN
         shorter \cup {Append(s, x) : s \in {t \in shorter : Len(t) = n - 1}, x \in S}

Calendars == {Cal, OtherCal}

GenerateTasksRequests ==
  [op : {"generateTasks"}, calendarId : {Cal}, isArray : {TRUE},
   scopes : SeqsUpTo(Entries, MaxEntries)]
  \cup [op : {"generateTasks"}, calendarId : {Cal, "none"}, isArray : BOOLEAN,
        scopes : {<<>>}]

\* lines 448-455: the request arrives; 400 when scopes is not an array
GenerateTasksArrives(p) ==
  \E r \in GenerateTasksRequests :
    Arrive(p, r, IF r.isArray THEN "gt_findCalendar" ELSE "done", "badRequest")

\* line 469: counted in the tasks read with the calendar at line 457
ExistingTasksOfType(calendarTasks, type) ==
  Cardinality({t \in calendarTasks : t.contentType = type})

\* line 470
TasksToCreate(entry, calendarTasks) ==
  Max(0, entry.quantity - ExistingTasksOfType(calendarTasks, entry.contentType))

\* lines 466-472: from entry k on, the first entry that is not skipped
\* (Len + 1 when the loop ends)
RECURSIVE NextEntry(_, _, _)
NextEntry(entries, k, calendarTasks) ==
  IF k > Len(entries) THEN k
  ELSE IF TasksToCreate(entries[k], calendarTasks) = 0
       THEN NextEntry(entries, k + 1, calendarTasks)
       ELSE k

\* the loop runs from entry k to its next await
GtLoop(p, k, calendarTasks, createdTasks) ==
  LET entries == req[p].scopes
      k2 == NextEntry(entries, k, calendarTasks)
  IN
    /\ loc' = [loc EXCEPT
                 ![p].calendarTasks = calendarTasks,
                 ![p].k = k2,
                 ![p].i = 0,
                 ![p].createdTasks = createdTasks]
    /\ Goto(p, IF k2 > Len(entries) THEN "gt_log" ELSE "gt_upsert")

\* lines 457-462: the calendar is read with its tasks; 404 when absent
GtFindCalendar(p) ==
  /\ pc[p] = "gt_findCalendar"
  /\ IF req[p].calendarId \in Calendars
     THEN GtLoop(p, 1, {t \in tasks : t.calendarId = req[p].calendarId}, <<>>)
     ELSE /\ Finish(p, "notFound")
          /\ loc' = loc
  /\ UNCHANGED <<tasks, scopes, log, nextId, req, pre, calls, overlap>>

\* lines 475-479: the scope of the entry's type is created or its quantity set
Upsert(S, calendarId, entry, id) ==
  IF \E s \in S : s.calendarId = calendarId /\ s.contentType = entry.contentType
  THEN {IF s.calendarId = calendarId /\ s.contentType = entry.contentType
        THEN [s EXCEPT !.quantity = entry.quantity] ELSE s : s \in S}
  ELSE S \cup {[id |-> id, calendarId |-> calendarId,
                contentType |-> entry.contentType,
                quantity |-> entry.quantity, completed |-> 0]}

GtUpsert(p) ==
  /\ pc[p] = "gt_upsert"
  /\ scopes' = Upsert(scopes, req[p].calendarId, req[p].scopes[loc[p].k], nextId)
  /\ nextId' = IF Ids(scopes') = Ids(scopes) THEN nextId ELSE nextId + 1
  /\ Goto(p, "gt_create")
  /\ UNCHANGED <<tasks, log, req, loc, pre, calls, overlap>>

\* lines 481-503: one iteration of the create loop; after the last one the
\* outer loop goes on to its next await
GtCreate(p) ==
  /\ pc[p] = "gt_create"
  /\ LET entry == req[p].scopes[loc[p].k]
         calendarTasks == loc[p].calendarTasks
         i == loc[p].i
         created == NewTask(nextId, req[p].calendarId, entry.contentType,
                            TitleNumber(ExistingTasksOfType(calendarTasks,
                                                            entry.contentType), i))
     IN
       /\ tasks' = tasks \cup {created}
       /\ nextId' = nextId + 1
       /\ IF i + 1 < TasksToCreate(entry, calendarTasks)
          THEN /\ loc' = [loc EXCEPT ![p].i = i + 1,
                                     ![p].createdTasks = Append(@, nextId)]
               /\ Goto(p, "gt_create")
          ELSE GtLoop(p, loc[p].k + 1, calendarTasks,
                      Append(loc[p].createdTasks, nextId))
  /\ UNCHANGED <<scopes, log, req, pre, calls, overlap>>

\* lines 536-549: the audit entry, then 201
GtLog(p) ==
  /\ pc[p] = "gt_log"
  /\ log' = Append(log, [action |-> "GENERATE", entity |-> "CalendarTasks",
                         entityId |-> req[p].calendarId,
                         tasksCreated |-> Len(loc[p].createdTasks)])
  /\ Finish(p, "ok")
  /\ UNCHANGED <<tasks, scopes, nextId, req, loc, pre, calls, overlap>>

GenerateTasksAwaits == {"gt_findCalendar", "gt_upsert", "gt_create", "gt_log"}

\* ------------------------------------------------------------ updateTaskDate
\* a date is a number of days since 1 January 1970, a Thursday
Days == 2..MaxDay

\* Date.prototype.getDay: 0 is Sunday, 6 is Saturday
GetDay(d) == (d + 4) % 7

\* lines 569-570
IsWeekend(d) == GetDay(d) = 0 \/ GetDay(d) = 6

\* calculateBusinessDueDate (lines 28-43): daysBefore weekdays back
RECURSIVE CalculateBusinessDueDate(_, _)
CalculateBusinessDueDate(d, daysBefore) ==
  IF daysBefore = 0 THEN d
  ELSE IF GetDay(d - 1) # 0 /\ GetDay(d - 1) # 6
       THEN CalculateBusinessDueDate(d - 1, daysBefore - 1)
       ELSE CalculateBusinessDueDate(d - 1, daysBefore)

\* line 578: newDate.getTime() - 2 * 24 * 60 * 60 * 1000
DueDateBusinessDays(d) == CalculateBusinessDueDate(d, 2)
DueDate(d) == d - 2

TaskIds == 0..(MaxInit + 2)

UpdateTaskDateRequests ==
  [op : {"updateTaskDate"}, taskId : TaskIds, publishDate : Opt(Days)]

\* lines 557-572: the request arrives; 400 without a date or on a weekend
UpdateTaskDateArrives(p) ==
  \E r \in UpdateTaskDateRequests :
    Arrive(p, r,
           IF r.publishDate = Unset THEN "done"
           ELSE IF IsWeekend(r.publishDate[1]) THEN "done"
           ELSE "td_update",
           "badRequest")

\* lines 574-590: task.update by id; a row that does not exist fails it
TdUpdate(p) ==
  /\ pc[p] = "td_update"
  /\ LET newDate == req[p].publishDate[1] IN
       IF \E t \in tasks : t.id = req[p].taskId
       THEN /\ tasks' = {IF t.id = req[p].taskId
                         THEN [t EXCEPT !.publishDate = <<newDate>>,
                                        !.dueDate = <<DueDate(newDate)>>]
                         ELSE t : t \in tasks}
            /\ Goto(p, "td_log")
       ELSE /\ tasks' = tasks
            /\ Finish(p, "error")
  /\ UNCHANGED <<scopes, log, nextId, req, loc, pre, calls, overlap>>

\* lines 592-606: the audit entry, then the response
TdLog(p) ==
  /\ pc[p] = "td_log"
  /\ log' = Append(log, [action |-> "UPDATE", entity |-> "Task",
                         entityId |-> req[p].taskId, tasksCreated |-> 0])
  /\ Finish(p, "ok")
  /\ UNCHANGED <<tasks, scopes, nextId, req, loc, pre, calls, overlap>>

UpdateTaskDateAwaits == {"td_update", "td_log"}

\* ------------------------------------------------------------ the rest
\* an await on the persistence layer rejects (connection lost, timeout): the
\* catch block hands the error to next(error); nothing is undone
Fail(p) ==
  /\ pc[p] \in UpdateScopeAwaits \cup GenerateTasksAwaits \cup UpdateTaskDateAwaits
  /\ Finish(p, "error")
  /\ loc' = [loc EXCEPT ![p].failedAt = pc[p]]
  /\ UNCHANGED <<tasks, scopes, log, nextId, req, pre, calls, overlap>>

\* ------------------------------------------------------------ initial stores
Rank(status) ==
  IF status = "TODO" THEN 2 ELSE (IF status = "IN_PROGRESS" THEN 1 ELSE 0)

\* a task as generated, then moved along by its assignee; a task that has
\* been started has been given its publish date (task i day 3 + i)
StoredTask(id, calendarId, type, n, status) ==
  [NewTask(id, calendarId, type, n) EXCEPT
     !.status = status,
     !.publishDate = IF status = "TODO" THEN Unset ELSE <<3 + id>>,
     !.dueDate = IF status = "TODO" THEN Unset ELSE <<DueDate(3 + id)>>]

InitStore(n, st, stray, quantity, second) ==
  /\ tasks = {StoredTask(i, Cal, "BLOG_POST", i, st[i]) : i \in 1..n}
             \cup {StoredTask(MaxInit + 1, Cal, "VIDEO", 1, "TODO") : x \in 1..stray}
             \cup {StoredTask(MaxInit + 2, OtherCal, "BLOG_POST", 1, "TODO")}
  /\ scopes = {[id |-> ScopeId, calendarId |-> Cal, contentType |-> "BLOG_POST",
                quantity |-> quantity, completed |-> 0],
               [id |-> 3, calendarId |-> OtherCal, contentType |-> "VIDEO",
                quantity |-> 1, completed |-> 0]}
              \cup {[id |-> 2, calendarId |-> Cal, contentType |-> "VIDEO",
                     quantity |-> stray, completed |-> 0] : x \in 1..(IF second THEN 1 ELSE 0)}
  /\ log = <<>>
  /\ nextId = MaxInit + 4
  /\ pc = [p \in Procs |-> "idle"]
  /\ req = [p \in Procs |-> NoReq]
  /\ loc = [p \in Procs |-> InitLoc]
  /\ res = [p \in Procs |-> "none"]
  /\ pre = [p \in Procs |-> NoSnapshot]
  /\ calls = 0
  /\ overlap = FALSE

\* the stores a request can find: up to MaxInit tasks of the scope's type in
\* any statuses (ids are interchangeable, so in one order), a task of the
\* other type or none, any quantity, a second scope on the calendar or none
Init ==
  \E n \in 0..MaxInit, stray \in 0..1, quantity \in 0..MaxQty, second \in BOOLEAN :
    \E st \in [1..n -> Statuses] :
      /\ \A i, j \in 1..n : i < j => Rank(st[i]) >= Rank(st[j])
      /\ InitStore(n, st, stray, quantity, second)

\* one request, served from arrival to response with nothing in between
Next ==
  \/ UpdateScopeArrives(1) \/ GenerateTasksArrives(1) \/ UpdateTaskDateArrives(1)
  \/ UsFindScope(1) \/ UsUpdateScope(1) \/ UsFindToMigrate(1) \/ UsMigrate(1)
  \/ UsCount(1) \/ UsCreate(1) \/ UsFindAll(1) \/ UsDelete(1)
  \/ GtFindCalendar(1) \/ GtUpsert(1) \/ GtCreate(1) \/ GtLog(1)
  \/ TdUpdate(1) \/ TdLog(1)
  \/ Fail(1)

Spec == Init /\ [][Next]_vars

\* ------------------------------------------------------------ two requests
\* two updateScope requests on the same scope, their awaits interleaved
ConcurrentRequests ==
  [op : {"updateScope"}, scopeId : {ScopeId}, quantity : Opt(0..MaxQty),
   completed : {Unset}, contentType : {""} \cup Types]

\* the slots are interchangeable: slot 1 takes the request that arrives first
ConcurrentArrives(p) ==
  /\ \A q \in Procs : q < p => pc[q] # "idle"
  /\ \E r \in ConcurrentRequests : Arrive(p, r, "us_findScope", "none")

\* the stores in which the scope's quantity is the number of its tasks; the
\* first task has been started, the others not
InitConc ==
  \E n \in 0..MaxQty, stray \in 0..1, second \in BOOLEAN :
    InitStore(n, [i \in 1..n |-> IF i = 1 THEN "IN_PROGRESS" ELSE "TODO"],
              stray, n, second)

NextConc ==
  \E p \in Procs :
    \/ ConcurrentArrives(p)
    \/ UsFindScope(p) \/ UsUpdateScope(p) \/ UsFindToMigrate(p) \/ UsMigrate(p)
    \/ UsCount(p) \/ UsCreate(p) \/ UsFindAll(p) \/ UsDelete(p)

SpecConc == InitConc /\ [][NextConc]_vars

\* ------------------------------------------------- requests one after another
\* the response has been sent: the slot is free for the next request
Return(p) ==
  /\ pc[p] = "done"
  /\ pc' = [pc EXCEPT ![p] = "idle"]
  /\ res' = [res EXCEPT ![p] = "none"]
  /\ req' = [req EXCEPT ![p] = NoReq]
  /\ loc' = [loc EXCEPT ![p] = InitLoc]
  /\ pre' = [pre EXCEPT ![p] = NoSnapshot]
  /\ UNCHANGED <<tasks, scopes, log, nextId, calls, overlap>>

\* lines 268-271: a request that changes the quantity of a scope of the
\* calendar and nothing else
QuantityChangeArrives(p) ==
  /\ calls < MaxCalls
  /\ \E s \in {x \in scopes : x.calendarId = Cal}, q \in 0..MaxQty :
       Arrive(p, [op |-> "updateScope", scopeId |-> s.id, quantity |-> <<q>>,
                  completed |-> Unset, contentType |-> ""],
              "us_findScope", "none")

\* lines 448-455: a request for the calendar that names each content type at
\* most once
DistinctTypes(entries) ==
  \A i, j \in 1..Len(entries) :
    entries[i].contentType = entries[j].contentType => i = j

GenerationArrives(p) ==
  /\ calls < MaxCalls
  /\ \E r \in GenerateTasksRequests :
       /\ r.calendarId = Cal /\ r.isArray /\ DistinctTypes(r.scopes)
       /\ Arrive(p, r, "gt_findCalendar", "badRequest")

\* the calendar has a scope and no task yet
InitSeq ==
  \E quantity \in 0..MaxQty : InitStore(0, <<>>, 0, quantity, FALSE)

\* the handlers never fail here and no request changes a type, so the
\* migration steps and the rejection are not part of this specification
NextSeq ==
  \/ QuantityChangeArrives(1) \/ GenerationArrives(1) \/ Return(1)
  \/ UsFindScope(1) \/ UsUpdateScope(1)
  \/ UsCount(1) \/ UsCreate(1) \/ UsFindAll(1) \/ UsDelete(1)
  \/ GtFindCalendar(1) \/ GtUpsert(1) \/ GtCreate(1) \/ GtLog(1)

SpecSeq == InitSeq /\ [][NextSeq]_vars

\* ------------------------------------------------------------ properties
Answered(p, op, result) ==
  pc[p] = "done" /\ req[p].op = op /\ res[p] = result

Row(T, id) == CHOOSE t \in T : t.id = id

\* the scope row an updateScope request names, as stored when it arrived
PreScope(p) == FindScope(pre[p].scopes, req[p].scopeId)
\* the same row now
NowScope(p) == FindScope(scopes, req[p].scopeId)

\* what the request asks for, read off the request and the stored row
AskedType(p) ==
  IF req[p].contentType = "" THEN PreScope(p).contentType ELSE req[p].contentType
AskedQuantity(p) ==
  IF req[p].quantity = Unset THEN PreScope(p).quantity ELSE req[p].quantity[1]
AskedDiff(p) == AskedQuantity(p) - PreScope(p).quantity
ChangesType(p) == AskedType(p) # PreScope(p).contentType

\* an updateScope request on an existing scope that was answered with success
ScopeUpdated(p) == Answered(p, "updateScope", "ok") /\ PreScope(p) # NoScope

\* the tasks created and the ids deleted since the request arrived
Created(p) == {t \in tasks : t.id \notin Ids(pre[p].tasks)}
Deleted(p) == {t \in pre[p].tasks : t.id \notin Ids(tasks)}

\* the tasks of the asked type on the scope's calendar once the old type's
\* tasks have been relabelled: those of the asked type and those of the old
OfAskedTypeAfterMigration(p) ==
  {t \in pre[p].tasks :
     /\ t.calendarId = PreScope(p).calendarId
     /\ t.contentType \in {AskedType(p), PreScope(p).contentType}}

\* an updateScope request that names a content type which another scope of
\* the same calendar had when the request arrived
C1_Asked(p) ==
  /\ req[p].op = "updateScope"
  /\ PreScope(p) # NoScope
  /\ \E s \in pre[p].scopes :
       /\ s.id # PreScope(p).id
       /\ s.calendarId = PreScope(p).calendarId
       /\ s.contentType = req[p].contentType

\* C1: an updateScope request for a content type that another scope of the
\* same calendar already has is answered with the conflict error and nothing
\* else runs: no task is migrated, created or deleted, and the scope row
\* (contentType, quantity, completed) stays as it was.  (A request whose
\* findUnique or update await itself rejects is answered with that error.)
C1_ConflictStopsEverything ==
  \A p \in Procs : C1_Asked(p) =>
    /\ tasks = pre[p].tasks
    /\ scopes = pre[p].scopes
    /\ log = pre[p].log
    /\ pc[p] \in {"us_findScope", "us_updateScope", "done"}
    /\ pc[p] = "done" =>
         \/ res[p] = "conflict"
         \/ res[p] = "error" /\ loc[p].failedAt \in {"us_findScope", "us_updateScope"}

\* C1 witness: such a request has been answered with the conflict error
C1_Witness ==
  \E p \in Procs : C1_Asked(p) /\ Answered(p, "updateScope", "conflict")

\* what C2 says of the created tasks and of the scope: exactly diff tasks of
\* the scope's type created, numbered existingCount+1 .. existingCount+diff,
\* each TODO, MEDIUM and unscheduled; the scope has the asked quantity
C2_CreatedAsAsked(p) ==
  LET existingCount == Cardinality(OfAskedTypeAfterMigration(p)) IN
    /\ Cardinality(Created(p)) = AskedDiff(p)
    /\ \A t \in Created(p) :
         /\ t.contentType = AskedType(p)
         /\ t.calendarId = PreScope(p).calendarId
         /\ t.status = "TODO" /\ t.priority = "MEDIUM"
         /\ t.publishDate = Unset /\ t.dueDate = Unset
    /\ {t.title.num : t \in Created(p)}
         = (existingCount + 1)..(existingCount + AskedDiff(p))
    /\ NowScope(p).quantity = AskedQuantity(p)

\* task t of the old type on the scope's calendar, relabelled into u
C2_Relabelled(p, t, u) ==
  /\ ChangesType(p)
  /\ t.calendarId = PreScope(p).calendarId
  /\ t.contentType = PreScope(p).contentType
  /\ u.contentType = AskedType(p)
  /\ [u EXCEPT !.contentType = t.contentType, !.title = t.title,
               !.descLabel = t.descLabel] = t

\* C2 as stated: after an updateScope that asks for more than the scope's
\* quantity, exactly diff tasks of the scope's type have been created,
\* numbered existingCount+1 .. existingCount+diff, each TODO, MEDIUM and
\* unscheduled; the scope has the asked quantity; and no task that existed
\* before has been modified or deleted.
C2_Original ==
  \A p \in Procs : ScopeUpdated(p) /\ AskedDiff(p) > 0 =>
    /\ C2_CreatedAsAsked(p)
    /\ \A t \in pre[p].tasks : t \in tasks

\* C2 as amended: after an updateScope that asks for more than the scope's
\* quantity, exactly diff tasks of the scope's type have been created,
\* numbered existingCount+1 .. existingCount+diff, each TODO, MEDIUM and
\* unscheduled; the scope has the asked quantity; no task that existed
\* before has been deleted, and none has been modified except that a call
\* which also changes the content type relabels the tasks of the old type
\* (content type, title, description).
C2_IncreaseCreates ==
  \A p \in Procs : ScopeUpdated(p) /\ AskedDiff(p) > 0 =>
    /\ C2_CreatedAsAsked(p)
    /\ \A t \in pre[p].tasks :
         \E u \in tasks : u.id = t.id /\ (u = t \/ C2_Relabelled(p, t, u))

\* C2 witness: two tasks existed, two were asked for on top: #3 and #4
C2_Witness ==
  \E p \in Procs :
    /\ ScopeUpdated(p) /\ AskedDiff(p) = 2 /\ ~ChangesType(p)
    /\ Cardinality(OfAskedTypeAfterMigration(p)) = 2
    /\ \E t \in Created(p) : t.title.num = 4

\* the deletion score the claim gives
C3_Score(status) ==
  IF status = "TODO" THEN 2 ELSE IF status = "IN_PROGRESS" THEN 1 ELSE 0

\* C3: after an updateScope that asks for less than the scope's quantity,
\* exactly min(|diff|, number of tasks of the scope's type on the calendar)
\* tasks have been deleted, every deleted task is of the scope's type, and
\* no task of that type that was kept has a strictly higher deletion score
\* than a deleted one.
C3_DecreaseDeletes ==
  \A p \in Procs : ScopeUpdated(p) /\ AskedDiff(p) < 0 =>
    LET candidates == OfAskedTypeAfterMigration(p)
        n == Cardinality(candidates)
    IN
      /\ Cardinality(Deleted(p)) = (IF 0 - AskedDiff(p) < n THEN 0 - AskedDiff(p) ELSE n)
      /\ Deleted(p) \subseteq candidates
      /\ \A d \in Deleted(p) : \A k \in candidates \ Deleted(p) :
           C3_Score(k.status) <= C3_Score(d.status)

\* C3 witness: a task was deleted while one further along was kept
C3_Witness ==
  \E p \in Procs :
    /\ ScopeUpdated(p) /\ AskedDiff(p) < 0
    /\ \E d \in Deleted(p), k \in OfAskedTypeAfterMigration(p) \ Deleted(p) :
         C3_Score(k.status) < C3_Score(d.status)

\* C4: after an updateScope that changes the content type and leaves the
\* quantity alone, every task of the calendar that had the old type has the
\* new one, none has the old one, the calendar has the same tasks (by id) as
\* before, and the tasks of other types and of other calendars are unchanged.
C4_TypeChangeRelabels ==
  \A p \in Procs : ScopeUpdated(p) /\ ChangesType(p) /\ AskedDiff(p) = 0 =>
    LET old == PreScope(p).contentType
        cal == PreScope(p).calendarId
    IN
      /\ Ids(tasks) = Ids(pre[p].tasks)
      /\ \A t \in pre[p].tasks :
           IF t.calendarId = cal /\ t.contentType = old
           THEN Row(tasks, t.id).contentType = AskedType(p)
                /\ Row(tasks, t.id).calendarId = cal
           ELSE t \in tasks
      /\ TasksOf(tasks, cal, old) = {}

\* C4 witness: two tasks relabelled, beside a task that had the new type
\* already and a task of the old type on the other calendar
C4_Witness ==
  \E p \in Procs :
    /\ ScopeUpdated(p) /\ ChangesType(p) /\ AskedDiff(p) = 0
    /\ Cardinality(TasksOf(pre[p].tasks, PreScope(p).calendarId,
                           PreScope(p).contentType)) = 2
    /\ TasksOf(pre[p].tasks, PreScope(p).calendarId, AskedType(p)) # {}
    /\ TasksOf(pre[p].tasks, OtherCal, PreScope(p).contentType) # {}

QuantityAwaits == {"us_count", "us_create", "us_findAll", "us_delete"}

\* C5: when one updateScope changes both the content type and the quantity,
\* the diff is the asked quantity minus the quantity stored before the call,
\* the migration is applied before the quantity step, and the quantity step
\* adds or removes only tasks of the new type, counted and selected among
\* the tasks of the new type as they are after the migration: created tasks
\* are numbered after the migrated ones, and migrated tasks may be deleted.
C5_MigrationThenQuantity ==
  \A p \in Procs :
    /\ req[p].op = "updateScope" /\ pc[p] \in QuantityAwaits /\ ChangesType(p) =>
         TasksOf(tasks, PreScope(p).calendarId, PreScope(p).contentType) = {}
    /\ ScopeUpdated(p) /\ ChangesType(p) /\ AskedDiff(p) # 0 =>
         LET after == OfAskedTypeAfterMigration(p)
             n == Cardinality(after)
             diff == AskedDiff(p)
         IN
           /\ TasksOf(tasks, PreScope(p).calendarId, PreScope(p).contentType) = {}
           /\ \A t \in after \ Deleted(p) :
                Row(tasks, t.id).contentType = AskedType(p)
           /\ \A t \in Created(p) : t.contentType = AskedType(p)
           /\ Deleted(p) \subseteq after
           /\ IF diff > 0
              THEN /\ Deleted(p) = {}
                   /\ {t.title.num : t \in Created(p)} = (n + 1)..(n + diff)
                   /\ Cardinality(Created(p)) = diff
              ELSE /\ Created(p) = {}
                   /\ Cardinality(Deleted(p)) = (IF 0 - diff < n THEN 0 - diff ELSE n)

\* C5 witness, an increase: a created task numbered after two migrated
\* tasks and one task that had the new type already
C5_Witness ==
  \E p \in Procs :
    /\ ScopeUpdated(p) /\ ChangesType(p) /\ AskedDiff(p) > 0
    /\ Cardinality(TasksOf(pre[p].tasks, Cal, PreScope(p).contentType)) = 2
    /\ Cardinality(TasksOf(pre[p].tasks, Cal, AskedType(p))) = 1
    /\ \E t \in Created(p) : t.title.num = 4

\* C5, a decrease: a migrated task is among the deleted
C5_WitnessDecrease ==
  \E p \in Procs :
    /\ ScopeUpdated(p) /\ ChangesType(p) /\ AskedDiff(p) < 0
    /\ \E t \in Deleted(p) : t.contentType = PreScope(p).contentType

\* C6: every updateScope and every generateTasks request answered with
\* success has appended exactly one entry to the activity log.
C6_OneAuditEntry ==
  \A p \in Procs :
    Answered(p, "updateScope", "ok") \/ Answered(p, "generateTasks", "ok") =>
      /\ Len(log) = Len(pre[p].log) + 1
      /\ SubSeq(log, 1, Len(pre[p].log)) = pre[p].log

\* what holds of the code: generateTasks appends one entry, updateScope none
C6_AsCoded ==
  \A p \in Procs :
    /\ Answered(p, "generateTasks", "ok") => Len(log) = Len(pre[p].log) + 1
    /\ req[p].op = "updateScope" => log = pre[p].log

CountsOn(T, calendarId) == [type \in Types |-> CountOf(T, calendarId, type)]
QuantitiesOn(S, calendarId) ==
  [type \in Types |->
     IF \E x \in S : x.calendarId = calendarId /\ x.contentType = type
     THEN <<(CHOOSE x \in S : x.calendarId = calendarId /\ x.contentType = type).quantity>>
     ELSE Unset]

\* the store C7 describes after the entries: per content type the number of
\* tasks on the calendar and the scope's quantity (Unset: no scope), each
\* entry counting the tasks that are on the calendar when its turn comes
RECURSIVE C7_Claimed(_, _, _)
C7_Claimed(entries, counts, quantities) ==
  IF entries = <<>> THEN [counts |-> counts, quantities |-> quantities]
  ELSE LET e == Head(entries)
           add == Max(0, e.quantity - counts[e.contentType])
       IN C7_Claimed(Tail(entries),
                     [counts EXCEPT ![e.contentType] = @ + add],
                     IF add = 0 THEN quantities
                     ELSE [quantities EXCEPT ![e.contentType] = <<e.quantity>>])

\* C7: generateTasks only adds: entry by entry, in order, repeated content
\* types included, it creates max(0, quantity - existingCount) tasks, where
\* existingCount is the number of tasks of the type already on the calendar;
\* it deletes and modifies no task; an entry that adds nothing writes no
\* scope; for any other entry the scope of the type is created or set to
\* the entry's quantity.
C7_AdditiveByLiveCount ==
  \A p \in Procs : Answered(p, "generateTasks", "ok") =>
    LET claimed == C7_Claimed(req[p].scopes,
                              CountsOn(pre[p].tasks, req[p].calendarId),
                              QuantitiesOn(pre[p].scopes, req[p].calendarId))
    IN
      /\ pre[p].tasks \subseteq tasks
      /\ CountsOn(tasks, req[p].calendarId) = claimed.counts
      /\ QuantitiesOn(scopes, req[p].calendarId) = claimed.quantities

\* the same with every entry counting the tasks that were on the calendar
\* when the request read it: this is what the code does
RECURSIVE C7_Coded(_, _, _, _)
C7_Coded(entries, read, counts, quantities) ==
  IF entries = <<>> THEN [counts |-> counts, quantities |-> quantities]
  ELSE LET e == Head(entries)
           add == Max(0, e.quantity - read[e.contentType])
       IN C7_Coded(Tail(entries), read,
                   [counts EXCEPT ![e.contentType] = @ + add],
                   IF add = 0 THEN quantities
                   ELSE [quantities EXCEPT ![e.contentType] = <<e.quantity>>])

C7_AsCoded ==
  \A p \in Procs : Answered(p, "generateTasks", "ok") =>
    LET coded == C7_Coded(req[p].scopes,
                          CountsOn(pre[p].tasks, req[p].calendarId),
                          CountsOn(pre[p].tasks, req[p].calendarId),
                          QuantitiesOn(pre[p].scopes, req[p].calendarId))
    IN
      /\ pre[p].tasks \subseteq tasks
      /\ CountsOn(tasks, req[p].calendarId) = coded.counts
      /\ QuantitiesOn(scopes, req[p].calendarId) = coded.quantities

\* day 2 (3 January 1970) was a Saturday, day 3 a Sunday
C8_SaturdayOrSunday(d) == d % 7 = 2 \/ d % 7 = 3

\* C8: updateTaskDate with a date on a Saturday or Sunday is answered with
\* the bad-request error and leaves the task's publishDate and dueDate and
\* the activity log as they were; with a Monday-Friday date it sets
\* publishDate to the date and dueDate to exactly two calendar days earlier,
\* weekends not skipped, and appends one audit entry.
C8_AssignDate ==
  \A p \in Procs :
    req[p].op = "updateTaskDate" /\ req[p].publishDate # Unset =>
      LET d == req[p].publishDate[1] IN
        IF C8_SaturdayOrSunday(d)
        THEN /\ pc[p] = "done" /\ res[p] = "badRequest"
             /\ tasks = pre[p].tasks /\ log = pre[p].log
        ELSE /\ res[p] # "badRequest"
             /\ Answered(p, "updateTaskDate", "ok") =>
                  /\ req[p].taskId \in Ids(pre[p].tasks)
                  /\ tasks = {IF t.id = req[p].taskId
                              THEN [t EXCEPT !.publishDate = <<d>>,
                                             !.dueDate = <<d - 2>>]
                              ELSE t : t \in pre[p].tasks}
                  /\ Len(log) = Len(pre[p].log) + 1
                  /\ SubSeq(log, 1, Len(pre[p].log)) = pre[p].log
                  /\ log[Len(log)].entity = "Task"
                  /\ log[Len(log)].entityId = req[p].taskId

\* C8 witness: a Monday assigned, the due date is the Saturday before
C8_Witness ==
  \E p \in Procs :
    /\ Answered(p, "updateTaskDate", "ok")
    /\ req[p].publishDate = <<4>>
    /\ Row(tasks, req[p].taskId).dueDate = <<2>>

\* C8, the other case: a Saturday refused
C8_WitnessWeekend ==
  \E p \in Procs :
    /\ Answered(p, "updateTaskDate", "badRequest")
    /\ req[p].publishDate = <<2>>

\* the request that arrived first, and the store it found
First == CHOOSE p \in Procs : loc[p].arrival = 1
BothAnswered == \A p \in Procs : Answered(p, "updateScope", "ok")
Balanced(T, S) ==
  LET s == FindScope(S, ScopeId) IN
    CountOf(T, s.calendarId, s.contentType) = s.quantity

\* no request names a content type, other than the scope's, of which the
\* calendar had tasks
C9_NoTaskOfNamedType ==
  \A p \in Procs :
    LET s == FindScope(pre[First].scopes, ScopeId) IN
      req[p].contentType \notin {"", s.contentType} =>
        TasksOf(pre[First].tasks, s.calendarId, req[p].contentType) = {}

\* C9 as stated: two updateScope requests on the same scope, their awaits
\* interleaved in any way; if the number of tasks of the scope's type was
\* the scope's quantity before both, it is again once both are answered.
C9_Original ==
  BothAnswered /\ Balanced(pre[First].tasks, pre[First].scopes) =>
    Balanced(tasks, scopes)

\* C9 as amended: two updateScope requests on the same scope served one
\* after the other (the second arrives when the first has been answered),
\* neither naming a content type other than the scope's of which the
\* calendar already has tasks; if the number of tasks of the scope's type
\* was the scope's quantity before both, it is again once both are answered.
C9_BalancedWhenSerial ==
  /\ BothAnswered
  /\ ~overlap
  /\ C9_NoTaskOfNamedType
  /\ Balanced(pre[First].tasks, pre[First].scopes)
  => Balanced(tasks, scopes)

\* C9 witness: served one after the other, the content type changed, the
\* quantity raised by one request and lowered by the other
C9_Witness ==
  /\ BothAnswered /\ ~overlap /\ C9_NoTaskOfNamedType
  /\ Balanced(pre[First].tasks, pre[First].scopes)
  /\ FindScope(scopes, ScopeId).contentType
       # FindScope(pre[First].scopes, ScopeId).contentType
  /\ \E p \in Procs : AskedDiff(p) > 0
  /\ \E p \in Procs : AskedDiff(p) < 0

\* an updateScope request that was answered with an error after its scope
\* update had been written
FailedAfterWrite(p) == Answered(p, "updateScope", "error") /\ loc[p].wrote

\* C10 as stated: an updateScope that fails at an await after the scope
\* update leaves the scope row and the calendar's tasks as they were before
\* the call.
C10_Original ==
  \A p \in Procs : FailedAfterWrite(p) =>
    scopes = pre[p].scopes /\ tasks = pre[p].tasks

\* C10 as amended: an updateScope that fails at an await after the scope
\* update undoes nothing.  The scope row keeps the asked contentType,
\* quantity and completed.  The tasks are as the awaits before the failing
\* one left them: the migration batch relabelled all the tasks of the old
\* type or none (all of them once the quantity step is reached), the creates
\* before the failing one stay (fewer than diff, numbered from
\* existingCount + 1), and no task is deleted.
C10_NothingUndone ==
  \A p \in Procs : FailedAfterWrite(p) =>
    LET cal == PreScope(p).calendarId
        olds == TasksOf(pre[p].tasks, cal, PreScope(p).contentType)
        n == Cardinality(OfAskedTypeAfterMigration(p))
        c == Cardinality(Created(p))
        migrated == ChangesType(p) /\ loc[p].failedAt \in QuantityAwaits
    IN
      /\ NowScope(p) = [PreScope(p) EXCEPT
                          !.contentType = AskedType(p),
                          !.quantity = AskedQuantity(p),
                          !.completed = IF req[p].completed = Unset THEN @
                                        ELSE req[p].completed[1]]
      /\ scopes \ {NowScope(p)} = pre[p].scopes \ {PreScope(p)}
      /\ Deleted(p) = {}
      /\ \A t \in pre[p].tasks \ olds : t \in tasks
      /\ IF migrated
         THEN \A t \in olds : Row(tasks, t.id).contentType = AskedType(p)
         ELSE \A t \in olds : t \in tasks
      /\ c < Max(AskedDiff(p), 1)
      /\ {t.title.num : t \in Created(p)} = (n + 1)..(n + c)
      /\ \A t \in Created(p) : t.contentType = AskedType(p)

\* C10 witness: the scope has the new type and the new quantity, the tasks
\* have been relabelled, and one of the two tasks asked for has been created
C10_Witness ==
  \E p \in Procs :
    /\ FailedAfterWrite(p) /\ ChangesType(p) /\ AskedDiff(p) = 2
    /\ NowScope(p).quantity = AskedQuantity(p)
    /\ NowScope(p).contentType = AskedType(p)
    /\ Cardinality(Created(p)) = 1
    /\ TasksOf(pre[p].tasks, Cal, PreScope(p).contentType) # {}

\* C10, another such state: the scope has the new type, its tasks still
\* have the old one
C10_WitnessNotMigrated ==
  \E p \in Procs :
    /\ FailedAfterWrite(p) /\ ChangesType(p)
    /\ NowScope(p).contentType = AskedType(p)
    /\ TasksOf(tasks, Cal, PreScope(p).contentType) # {}

\* C11: starting from a calendar with no task, after any sequence of
\* successful generateTasks requests and updateScope quantity changes, no two
\* tasks of the calendar with the same content type carry the same number in
\* their title
C11_NumbersDistinct ==
  pc[1] \in {"idle", "done"} =>
    \A t, u \in {x \in tasks : x.calendarId = Cal} :
      (t.contentType = u.contentType /\ t.title.num = u.title.num) => t = u

====
